---- MODULE Spec2Model ----
(***************************************************************************)
(* Admission webhook of AzureMachinePool                                   *)
(* (exp/api/v1beta1/azuremachinepool_webhook.go): the defaulting routine,  *)
(* the three validation entry points, the aggregator and its nine          *)
(* validators.                                                             *)
(*                                                                         *)
(* Go values are rendered as follows.  A pointer or an optional value is a *)
(* sequence of length at most one: <<>> is nil, <<x>> points to x.  A      *)
(* string the code only compares is a TLA+ string; a string the code       *)
(* parses (the Kubernetes version) is a sequence of one-character strings. *)
(* An error is a record [kind, msg, errs]; the nil error is Nil.           *)
(***************************************************************************)
EXTENDS Integers, Sequences, FiniteSets, TLC

VARIABLES
    amp,        \* the candidate AzureMachinePool (receiver of every handler)
    old,        \* the prior object handed to ValidateUpdate
    gate,       \* feature.Gates.Enabled(capifeature.MachinePool)
    client,     \* what the client.Client would answer to the parent lookup
    op,         \* the handler that ran last ("none" before any)
    result,     \* the error that handler returned
    calls,      \* the validators / default steps that handler ran, in order
    lookups,    \* the FindParentMachinePoolWithRetry calls that handler made
    attempts,   \* the lookup attempts those calls made on the client
    logged,     \* the errors that handler wrote to the log
    defaulted   \* how many times Default has run on the candidate

vars == <<amp, old, gate, client, op, result, calls, lookups, attempts, logged, defaulted>>

----------------------------------------------------------------------------
(* Bounds of the model. *)

\* Termination-notification timeouts range over 0..MaxTimeout.
MaxTimeout == 17
\* The client fails at most this many consecutive lookup attempts.
MaxFailures == 6
\* Default runs at most this many times on one candidate.
MaxDefaults == 2

(* Program constants. *)

MinTerminateNotificationTimeout == 5
MaxTerminateNotificationTimeout == 15
FindParentMaxAttempts == 5
MinK8sMajor == 1
MinK8sMinor == 26
MinK8sPatch == 0

----------------------------------------------------------------------------
(* Optional values and errors. *)

None == <<>>
Some(x) == <<x>>
IsNil(p) == p = <<>>
Deref(p) == p[1]

Nil == [kind |-> "nil", path |-> "", msg |-> "", errs |-> <<>>]
\* errors.New(msg), fmt.Errorf(msg)
Err(kind, msg) == [kind |-> kind, path |-> "", msg |-> msg, errs |-> <<>>]
\* field.Invalid, field.Required, field.Forbidden on a field path.
FieldErr(kind, path, msg) == [kind |-> kind, path |-> path, msg |-> msg, errs |-> <<>>]

\* kerrors.NewAggregate: nil for an empty list, else one error holding the list.
NewAggregate(errlist) ==
    IF errlist = <<>> THEN Nil
    ELSE [kind |-> "Aggregate", path |-> "", msg |-> "", errs |-> errlist]

\* errors.Wrap(err, msg)
Wrap(err, msg) == [kind |-> "Wrapped", path |-> "", msg |-> msg, errs |-> <<err>>]

\* The elements of a sequence of errors that are not nil, in order.
RECURSIVE NonNil(_)
NonNil(s) ==
    IF s = <<>> THEN <<>>
    ELSE IF Head(s) = Nil THEN NonNil(Tail(s))
    ELSE <<Head(s)>> \o NonNil(Tail(s))

\* field.ErrorList.ToAggregate().Errors(): the list with repeated messages
\* dropped (ToAggregate keeps the first error of each message; the message
\* of a field error is its path, its kind and its detail).
RECURSIVE DedupFrom(_, _)
DedupFrom(list, seen) ==
    IF list = <<>> THEN <<>>
    ELSE IF Head(list) \in seen THEN DedupFrom(Tail(list), seen)
    ELSE <<Head(list)>> \o DedupFrom(Tail(list), seen \cup {Head(list)})

ToAggregateErrors(list) == DedupFrom(list, {})

----------------------------------------------------------------------------
(* The validators of the webhook. *)

\* ValidateNetwork without the length test: any non-nil interface list counts.
ValidateNetwork_NilCheckOnly(a) ==
    IF ~IsNil(a.NetworkInterfaces) /\ a.SubnetName # ""
    THEN Err("Plain", "cannot set both NetworkInterfaces and machine SubnetName")
    ELSE Nil

\* ValidateNetwork: the interface list and the machine subnet name exclude
\* each other.  NetworkInterfaces is <<>> (nil slice) or <<list>>.
ValidateNetwork(a) ==
    IF  /\ ~IsNil(a.NetworkInterfaces)
        /\ Len(Deref(a.NetworkInterfaces)) > 0
        /\ a.SubnetName # ""
    THEN Err("Plain", "cannot set both NetworkInterfaces and machine SubnetName")
    ELSE Nil

\* infrav1.ValidateImage: the shared image-schema validator.  An image is
\* described by the field paths the schema check finds wrong.
InfraValidateImage(image) ==
    [i \in 1..Len(image.violations) |-> FieldErr("Invalid", image.violations[i], "invalid image")]

\* ValidateImage
ValidateImage(a) ==
    IF ~IsNil(a.Image)
    THEN LET errs == InfraValidateImage(Deref(a.Image))
         IN  IF Len(errs) > 0 THEN NewAggregate(ToAggregateErrors(errs)) ELSE Nil
    ELSE Nil

\* ValidateTerminateNotificationTimeout with the lower bound off by one.
ValidateTerminateNotificationTimeout_OffByOne(a) ==
    IF IsNil(a.TerminateNotificationTimeout) THEN Nil
    ELSE IF Deref(a.TerminateNotificationTimeout) <= MinTerminateNotificationTimeout
    THEN Err("Plain", "minimum timeout 5 is allowed for TerminateNotificationTimeout")
    ELSE IF Deref(a.TerminateNotificationTimeout) > MaxTerminateNotificationTimeout
    THEN Err("Plain", "maximum timeout 15 is allowed for TerminateNotificationTimeout")
    ELSE Nil

\* ValidateTerminateNotificationTimeout
ValidateTerminateNotificationTimeout(a) ==
    IF IsNil(a.TerminateNotificationTimeout) THEN Nil
    ELSE IF Deref(a.TerminateNotificationTimeout) < MinTerminateNotificationTimeout
    THEN Err("Plain", "minimum timeout 5 is allowed for TerminateNotificationTimeout")
    ELSE IF Deref(a.TerminateNotificationTimeout) > MaxTerminateNotificationTimeout
    THEN Err("Plain", "maximum timeout 15 is allowed for TerminateNotificationTimeout")
    ELSE Nil

\* Keys the shared SSH-key-format validator accepts: the ones the defaulting
\* routine generates and one supplied by a user.
GeneratedKeys == {"generated-key-1", "generated-key-2"}
WellFormedKeys == GeneratedKeys \cup {"user-key"}

\* infrav1.ValidateSSHKey: the shared SSH-key-format validator.
InfraValidateSSHKey(key) ==
    IF key \in WellFormedKeys THEN <<>>
    ELSE <<FieldErr("Invalid", "sshKey", "the SSH public key is not valid")>>

\* ValidateSSHKey
ValidateSSHKey(a) ==
    IF a.SSHPublicKey # ""
    THEN LET errs == InfraValidateSSHKey(a.SSHPublicKey)
         IN  IF Len(errs) > 0 THEN NewAggregate(ToAggregateErrors(errs)) ELSE Nil
    ELSE Nil

\* infrav1.ValidateUserAssignedIdentity: the identity list must be non-empty
\* iff the identity type requires it.
InfraValidateUserAssignedIdentity(identity, identities) ==
    IF identity = "UserAssigned" /\ Len(identities) = 0
    THEN <<FieldErr("Required", "UserAssignedIdentities",
                  "must be specified for the 'UserAssigned' identity type")>>
    ELSE IF identity # "UserAssigned" /\ Len(identities) > 0
    THEN <<FieldErr("Forbidden", "UserAssignedIdentities",
                  "must only be specified for the 'UserAssigned' identity type")>>
    ELSE <<>>

\* ValidateUserAssignedIdentity
ValidateUserAssignedIdentity(a) ==
    LET errs == InfraValidateUserAssignedIdentity(a.Identity, a.UserAssignedIdentities)
    IN  IF Len(errs) > 0 THEN NewAggregate(ToAggregateErrors(errs)) ELSE Nil

\* intstr.IntOrString: Type is "Int" or "String".
IntStrInt == "Int"

\* ValidateStrategy comparing the integer values without the Type test.
ValidateStrategy_TypeIgnored(a) ==
    IF a.Strategy.Type = "RollingUpdate" /\ ~IsNil(a.Strategy.RollingUpdate)
    THEN IF  /\ Deref(a.Strategy.RollingUpdate).MaxSurge.IntVal = 0
             /\ Deref(a.Strategy.RollingUpdate).MaxUnavailable.IntVal = 0
         THEN Err("Plain", "rolling update strategy MaxUnavailable must not be 0 if MaxSurge is 0")
         ELSE Nil
    ELSE Nil

\* ValidateStrategy
ValidateStrategy(a) ==
    IF a.Strategy.Type = "RollingUpdate" /\ ~IsNil(a.Strategy.RollingUpdate)
    THEN LET maxSurge == Deref(a.Strategy.RollingUpdate).MaxSurge
             maxUnavailable == Deref(a.Strategy.RollingUpdate).MaxUnavailable
         IN  IF  /\ maxSurge.Type = IntStrInt /\ maxSurge.IntVal = 0
                 /\ maxUnavailable.Type = IntStrInt /\ maxUnavailable.IntVal = 0
             THEN Err("Plain", "rolling update strategy MaxUnavailable must not be 0 if MaxSurge is 0")
             ELSE Nil
    ELSE Nil

\* infrav1.ValidateSystemAssignedIdentity: the role-assignment name is
\* immutable once set and belongs to the system-assigned identity only.
InfraValidateSystemAssignedIdentity(identity, oldRole, newRole) ==
    IF identity = "SystemAssigned"
    THEN IF oldRole # "" /\ oldRole # newRole
         THEN <<FieldErr("Invalid", "roleAssignmentName",
                       "Role assignment name should not be modified")>>
         ELSE <<>>
    ELSE IF newRole # ""
    THEN <<FieldErr("Forbidden", "roleAssignmentName",
                  "Role assignment name should only be set when using system assigned identity")>>
    ELSE <<>>

\* ValidateSystemAssignedIdentity(old)
ValidateSystemAssignedIdentity(a, o) ==
    IF ~IsNil(o) /\ Deref(o).type # "AzureMachinePool"
    THEN Err("Plain", "unexpected type for old azure machine pool object")
    ELSE LET oldRole == IF ~IsNil(o) THEN Deref(o).RoleAssignmentName ELSE ""
             errs == InfraValidateSystemAssignedIdentity(a.Identity, oldRole, a.RoleAssignmentName)
         IN  IF Len(errs) > 0 THEN NewAggregate(ToAggregateErrors(errs)) ELSE Nil

\* The error list ValidateDiagnostics collects.
DiagnosticsErrs(a) ==
    LET diagnostics == a.Diagnostics
    IN  IF ~IsNil(diagnostics) /\ ~IsNil(Deref(diagnostics).Boot)
        THEN LET boot == Deref(Deref(diagnostics).Boot)
             IN  CASE boot.StorageAccountType = "UserManaged" ->
                        IF IsNil(boot.UserManaged)
                        THEN <<FieldErr("Required", "diagnostics.UserManaged",
                                        "userManaged must be specified when storageAccountType is 'UserManaged'")>>
                        ELSE IF Deref(boot.UserManaged).StorageAccountURI = ""
                        THEN <<FieldErr("Required", "diagnostics.StorageAccountURI",
                                        "StorageAccountURI cannot be empty when storageAccountType is 'UserManaged'")>>
                        ELSE <<>>
                   [] boot.StorageAccountType = "Managed" ->
                        IF  /\ ~IsNil(boot.UserManaged)
                            /\ Deref(boot.UserManaged).StorageAccountURI # ""
                        THEN <<FieldErr("Invalid", "diagnostics.StorageAccountURI",
                                        "StorageAccountURI cannot be set when storageAccountType is 'Managed'")>>
                        ELSE <<>>
                   [] boot.StorageAccountType = "Disabled" ->
                        IF  /\ ~IsNil(boot.UserManaged)
                            /\ Deref(boot.UserManaged).StorageAccountURI # ""
                        THEN <<FieldErr("Invalid", "diagnostics.StorageAccountURI",
                                        "StorageAccountURI cannot be set when storageAccountType is 'Managed'")>>
                        ELSE <<>>
                   [] OTHER -> <<>>
        ELSE <<>>

\* ValidateDiagnostics without the case of the Disabled storage type.
ValidateDiagnostics_DisabledUnchecked(a) ==
    IF  /\ ~IsNil(a.Diagnostics) /\ ~IsNil(Deref(a.Diagnostics).Boot)
        /\ Deref(Deref(a.Diagnostics).Boot).StorageAccountType = "Disabled"
    THEN Nil
    ELSE IF Len(DiagnosticsErrs(a)) > 0
    THEN NewAggregate(ToAggregateErrors(DiagnosticsErrs(a)))
    ELSE Nil

\* ValidateDiagnostics
ValidateDiagnostics(a) ==
    LET allErrs == DiagnosticsErrs(a)
    IN  IF Len(allErrs) > 0 THEN NewAggregate(ToAggregateErrors(allErrs)) ELSE Nil

----------------------------------------------------------------------------
(* github.com/blang/semver, as ValidateOrchestrationMode uses it.  A version *)
(* string is a sequence of one-character strings.  The strings of the model  *)
(* hold no "+" (build metadata) and no number with a leading zero.           *)

DigitSeq == <<"0", "1", "2", "3", "4", "5", "6", "7", "8", "9">>
Digits == {DigitSeq[i] : i \in 1..Len(DigitSeq)}
Letters == {"a", "c", "e", "l", "r", "s", "t", "v", "x"}
DigitVal(ch) == (CHOOSE i \in 1..Len(DigitSeq) : DigitSeq[i] = ch) - 1

\* strings.Index(s, ch) + 1: the first position of ch in s, 0 if absent.
IndexOf(s, ch) ==
    IF \E i \in 1..Len(s) : s[i] = ch
    THEN CHOOSE i \in 1..Len(s) : s[i] = ch /\ \A j \in 1..(i - 1) : s[j] # ch
    ELSE 0

\* strings.SplitN(s, sep, n)
RECURSIVE SplitN(_, _, _)
SplitN(s, sep, n) ==
    LET i == IndexOf(s, sep)
    IN  IF n <= 1 \/ i = 0 THEN <<s>>
        ELSE <<SubSeq(s, 1, i - 1)>> \o SplitN(SubSeq(s, i + 1, Len(s)), sep, n - 1)

\* strings.Split(s, sep)
Split(s, sep) == SplitN(s, sep, Len(s) + 1)

\* strings.Join(parts, sep)
RECURSIVE Join(_, _)
Join(parts, sep) ==
    IF Len(parts) = 0 THEN <<>>
    ELSE IF Len(parts) = 1 THEN parts[1]
    ELSE parts[1] \o <<sep>> \o Join(Tail(parts), sep)

\* strings.TrimSpace
RECURSIVE TrimSpace(_)
TrimSpace(s) ==
    IF s = <<>> THEN s
    ELSE IF Head(s) = " " THEN TrimSpace(Tail(s))
    ELSE IF s[Len(s)] = " " THEN TrimSpace(SubSeq(s, 1, Len(s) - 1))
    ELSE s

\* strings.TrimPrefix(s, "v")
TrimPrefixV(s) == IF s # <<>> /\ Head(s) = "v" THEN Tail(s) ELSE s

ContainsOnly(s, set) == \A i \in 1..Len(s) : s[i] \in set
HasLeadingZeroes(s) == Len(s) > 1 /\ s[1] = "0"

\* strconv.ParseUint(s, 10, 64) on a string of digits.
RECURSIVE ParseUint(_)
ParseUint(s) ==
    IF s = <<>> THEN 0
    ELSE ParseUint(SubSeq(s, 1, Len(s) - 1)) * 10 + DigitVal(s[Len(s)])

\* A Major, Minor or Patch element: digits, no leading zero, not empty.
NumericOK(s) == ContainsOnly(s, Digits) /\ ~HasLeadingZeroes(s) /\ s # <<>>

\* semver.NewPRVersion succeeds on the identifier.
PRVersionOK(s) ==
    /\ s # <<>>
    /\ ContainsOnly(s, Digits \cup Letters \cup {"-"})
    /\ ContainsOnly(s, Digits) => ~HasLeadingZeroes(s)

BadVersion == [ok |-> FALSE, Major |-> 0, Minor |-> 0, Patch |-> 0, Pre |-> <<>>]

\* semver.Parse
Parse(s) ==
    LET parts == SplitN(s, ".", 3)
    IN  IF Len(s) = 0 \/ Len(parts) # 3 THEN BadVersion
        ELSE LET preIndex == IndexOf(parts[3], "-")
                 prerelease == IF preIndex # 0
                               THEN Split(SubSeq(parts[3], preIndex + 1, Len(parts[3])), ".")
                               ELSE <<>>
                 patchStr == IF preIndex # 0 THEN SubSeq(parts[3], 1, preIndex - 1)
                             ELSE parts[3]
             IN  IF  /\ NumericOK(parts[1]) /\ NumericOK(parts[2]) /\ NumericOK(patchStr)
                     /\ \A i \in 1..Len(prerelease) : PRVersionOK(prerelease[i])
                 THEN [ok |-> TRUE, Major |-> ParseUint(parts[1]),
                       Minor |-> ParseUint(parts[2]), Patch |-> ParseUint(patchStr),
                       Pre |-> prerelease]
                 ELSE BadVersion

\* semver.ParseTolerant
ParseTolerant(str) ==
    LET s == TrimPrefixV(TrimSpace(str))
        parts == SplitN(s, ".", 3)
    IN  IF Len(parts) < 3
        THEN IF IndexOf(parts[Len(parts)], "-") # 0 THEN BadVersion
             ELSE Parse(Join(parts \o [i \in 1..(3 - Len(parts)) |-> <<"0">>], "."))
        ELSE Parse(s)

\* k8sVersion.LT(semver.MustParse("1.26.0")): the constant has no
\* pre-release, so a version equal in its three numbers is lower iff it has one.
LTMinVersion(v) ==
    \/ v.Major < MinK8sMajor
    \/ v.Major = MinK8sMajor /\ v.Minor < MinK8sMinor
    \/ v.Major = MinK8sMajor /\ v.Minor = MinK8sMinor /\ v.Patch < MinK8sPatch
    \/ /\ v.Major = MinK8sMajor /\ v.Minor = MinK8sMinor /\ v.Patch = MinK8sPatch
       /\ Len(v.Pre) > 0

----------------------------------------------------------------------------
(* The parent lookup and the orchestration-mode validator. *)

\* One attempt of the lookup: the client knows the MachinePool that refers to
\* the pool named client.ref and fails its first client.failures attempts.
FindParentMachinePool(name, c, i) == name = c.ref /\ i > c.failures

\* azure.FindParentMachinePoolWithRetry(name, c, maxAttempts), from attempt i.
RECURSIVE FindParentFrom(_, _, _, _)
FindParentFrom(name, c, maxAttempts, i) ==
    IF FindParentMachinePool(name, c, i)
    THEN [err |-> Nil, parent |-> [Version |-> c.version], attempts |-> i]
    ELSE IF i >= maxAttempts
    THEN [err |-> Err("NotFound", "failed to find parent MachinePool"),
          parent |-> [Version |-> None], attempts |-> i]
    ELSE FindParentFrom(name, c, maxAttempts, i + 1)

FindParentMachinePoolWithRetry(name, c, maxAttempts) ==
    FindParentFrom(name, c, maxAttempts, 1)

\* The error ValidateOrchestrationMode returns once the parent is found.
CheckParentVersion(parent) ==
    IF IsNil(parent.Version)
    THEN Err("Plain", "could not find Kubernetes version in MachinePool")
    ELSE LET k8sVersion == ParseTolerant(Deref(parent.Version))
         IN  IF ~k8sVersion.ok
             THEN Wrap(Err("Malformed", "semver"), "failed to parse Kubernetes version")
             ELSE IF LTMinVersion(k8sVersion)
             THEN Err("Plain", "specified Kubernetes version must be >= 1.26.0 for Flexible orchestration mode")
             ELSE Nil

\* ValidateOrchestrationMode without the test of the mode.
ValidateOrchestrationMode_AnyMode(a, c) ==
    LET found == FindParentMachinePoolWithRetry(a.Name, c, FindParentMaxAttempts)
        call == [name |-> a.Name, maxAttempts |-> FindParentMaxAttempts]
    IN  IF found.err # Nil
        THEN [err |-> Wrap(found.err, "failed to find parent MachinePool"),
              lookups |-> <<call>>, attempts |-> found.attempts]
        ELSE [err |-> CheckParentVersion(found.parent),
              lookups |-> <<call>>, attempts |-> found.attempts]

\* ValidateOrchestrationMode(c): the error, and the lookups it made.
ValidateOrchestrationMode(a, c) ==
    IF a.OrchestrationMode = "Flexible"
    THEN LET found == FindParentMachinePoolWithRetry(a.Name, c, FindParentMaxAttempts)
             call == [name |-> a.Name, maxAttempts |-> FindParentMaxAttempts]
         IN  IF found.err # Nil
             THEN [err |-> Wrap(found.err, "failed to find parent MachinePool"),
                   lookups |-> <<call>>, attempts |-> found.attempts]
             ELSE [err |-> CheckParentVersion(found.parent),
                   lookups |-> <<call>>, attempts |-> found.attempts]
    ELSE [err |-> Nil, lookups |-> <<>>, attempts |-> 0]

----------------------------------------------------------------------------
(* The aggregator and the validation entry points.  Each returns the error  *)
(* together with what it did: the validators run and the lookups made.      *)

\* The validators slice of Validate, in its order.
validators ==
    <<"ValidateImage", "ValidateTerminateNotificationTimeout", "ValidateSSHKey",
      "ValidateUserAssignedIdentity", "ValidateDiagnostics",
      "ValidateOrchestrationMode", "ValidateStrategy",
      "ValidateSystemAssignedIdentity", "ValidateNetwork">>

\* validator(): one element of the slice, called.
CallValidator(name, a, o, c) ==
    CASE name = "ValidateImage" ->
            [err |-> ValidateImage(a), lookups |-> <<>>, attempts |-> 0]
      [] name = "ValidateTerminateNotificationTimeout" ->
            [err |-> ValidateTerminateNotificationTimeout(a), lookups |-> <<>>, attempts |-> 0]
      [] name = "ValidateSSHKey" ->
            [err |-> ValidateSSHKey(a), lookups |-> <<>>, attempts |-> 0]
      [] name = "ValidateUserAssignedIdentity" ->
            [err |-> ValidateUserAssignedIdentity(a), lookups |-> <<>>, attempts |-> 0]
      [] name = "ValidateDiagnostics" ->
            [err |-> ValidateDiagnostics(a), lookups |-> <<>>, attempts |-> 0]
      [] name = "ValidateOrchestrationMode" ->
            ValidateOrchestrationMode(a, c)
      [] name = "ValidateStrategy" ->
            [err |-> ValidateStrategy(a), lookups |-> <<>>, attempts |-> 0]
      [] name = "ValidateSystemAssignedIdentity" ->
            [err |-> ValidateSystemAssignedIdentity(a, o), lookups |-> <<>>, attempts |-> 0]
      [] name = "ValidateNetwork" ->
            [err |-> ValidateNetwork(a), lookups |-> <<>>, attempts |-> 0]

\* The loop of Validate over the validators still to run.
RECURSIVE RunValidators(_, _, _, _, _)
RunValidators(todo, a, o, c, acc) ==
    IF todo = <<>> THEN acc
    ELSE LET r == CallValidator(Head(todo), a, o, c)
         IN  RunValidators(Tail(todo), a, o, c,
                [errs |-> IF r.err # Nil THEN Append(acc.errs, r.err) ELSE acc.errs,
                 calls |-> Append(acc.calls, Head(todo)),
                 lookups |-> acc.lookups \o r.lookups,
                 attempts |-> acc.attempts + r.attempts])

\* Validate returning at the first error a validator returns.
RECURSIVE RunValidatorsFailFast(_, _, _, _, _)
RunValidatorsFailFast(todo, a, o, c, acc) ==
    IF todo = <<>> THEN acc
    ELSE LET r == CallValidator(Head(todo), a, o, c)
             next == [errs |-> IF r.err # Nil THEN Append(acc.errs, r.err) ELSE acc.errs,
                      calls |-> Append(acc.calls, Head(todo)),
                      lookups |-> acc.lookups \o r.lookups,
                      attempts |-> acc.attempts + r.attempts]
         IN  IF r.err # Nil THEN next
             ELSE RunValidatorsFailFast(Tail(todo), a, o, c, next)

Validate_FailFast(a, o, c) ==
    LET run == RunValidatorsFailFast(validators, a, o, c,
                   [errs |-> <<>>, calls |-> <<>>, lookups |-> <<>>, attempts |-> 0])
    IN  [err |-> NewAggregate(run.errs), calls |-> run.calls,
         lookups |-> run.lookups, attempts |-> run.attempts]

\* Validate(old, client)
Validate(a, o, c) ==
    LET run == RunValidators(validators, a, o, c,
                   [errs |-> <<>>, calls |-> <<>>, lookups |-> <<>>, attempts |-> 0])
    IN  [err |-> NewAggregate(run.errs), calls |-> run.calls,
         lookups |-> run.lookups, attempts |-> run.attempts]

\* field.Forbidden(field.NewPath("spec"), ...)
ForbiddenSpec ==
    FieldErr("Forbidden", "spec", "can be set only if the MachinePool feature flag is enabled")

\* ValidateCreate without the feature-gate test.
ValidateCreate_GateIgnored(a, g, c) == Validate(a, None, c)

\* ValidateCreate(client)
ValidateCreate(a, g, c) ==
    IF ~g
    THEN [err |-> ForbiddenSpec, calls |-> <<>>, lookups |-> <<>>, attempts |-> 0]
    ELSE Validate(a, None, c)

\* ValidateUpdate passing no prior object on.
ValidateUpdate_PriorDropped(a, o, c) == Validate(a, None, c)

\* ValidateUpdate(old, client)
ValidateUpdate(a, o, c) == Validate(a, o, c)

\* ValidateDelete(client)
ValidateDelete == [err |-> Nil, calls |-> <<>>, lookups |-> <<>>, attempts |-> 0]

----------------------------------------------------------------------------
(* The defaulting routine. *)

\* SetDefaultSSHPublicKey: an unset key is generated; keygen is the outcome
\* of the generation, None when it fails.
SetDefaultSSHPublicKey(a, keygen) ==
    IF a.SSHPublicKey = ""
    THEN IF IsNil(keygen)
         THEN [amp |-> a, err |-> Err("Plain", "failed to generate SSH key")]
         ELSE [amp |-> [a EXCEPT !.SSHPublicKey = Deref(keygen)], err |-> Nil]
    ELSE [amp |-> a, err |-> Nil]

\* SetIdentityDefaults: a system-assigned identity gets a role-assignment
\* name when it has none; uuid is the name generated.
SetIdentityDefaults(a, uuid) ==
    IF a.Identity = "SystemAssigned" /\ a.RoleAssignmentName = ""
    THEN [a EXCEPT !.RoleAssignmentName = uuid]
    ELSE a

BootDefault == [StorageAccountType |-> "Managed", UserManaged |-> None]

\* SetDiagnosticsDefaults: unset boot diagnostics become managed ones.
SetDiagnosticsDefaults(a) ==
    IF IsNil(a.Diagnostics)
    THEN [a EXCEPT !.Diagnostics = Some([Boot |-> Some(BootDefault)])]
    ELSE IF IsNil(Deref(a.Diagnostics).Boot)
    THEN [a EXCEPT !.Diagnostics = Some([Boot |-> Some(BootDefault)])]
    ELSE a

\* SetNetworkInterfacesDefaults: a pool without interfaces gets one, and an
\* interface without a private IP configuration count gets one configuration.
SetNetworkInterfacesDefaults(a) ==
    LET nics == IF IsNil(a.NetworkInterfaces) \/ Len(Deref(a.NetworkInterfaces)) = 0
                THEN <<[PrivateIPConfigs |-> 0]>>
                ELSE Deref(a.NetworkInterfaces)
    IN  [a EXCEPT !.NetworkInterfaces =
            Some([i \in 1..Len(nics) |->
                    IF nics[i].PrivateIPConfigs = 0
                    THEN [nics[i] EXCEPT !.PrivateIPConfigs = 1]
                    ELSE nics[i]])]

\* The four steps of Default, in its order.
defaulters ==
    <<"SetDefaultSSHPublicKey", "SetIdentityDefaults",
      "SetDiagnosticsDefaults", "SetNetworkInterfacesDefaults">>

\* One step of Default, called: the candidate after it and its error.
CallDefaulter(name, a, keygen, uuid) ==
    CASE name = "SetDefaultSSHPublicKey" -> SetDefaultSSHPublicKey(a, keygen)
      [] name = "SetIdentityDefaults" -> [amp |-> SetIdentityDefaults(a, uuid), err |-> Nil]
      [] name = "SetDiagnosticsDefaults" -> [amp |-> SetDiagnosticsDefaults(a), err |-> Nil]
      [] name = "SetNetworkInterfacesDefaults" ->
            [amp |-> SetNetworkInterfacesDefaults(a), err |-> Nil]

\* The statements of Default still to run: an error of a step is logged and
\* the next step runs.
RECURSIVE RunDefaulters(_, _, _, _)
RunDefaulters(todo, st, keygen, uuid) ==
    IF todo = <<>> THEN st
    ELSE LET r == CallDefaulter(Head(todo), st.amp, keygen, uuid)
         IN  RunDefaulters(Tail(todo),
                [amp |-> r.amp,
                 logged |-> IF r.err # Nil THEN Append(st.logged, r.err) ELSE st.logged,
                 calls |-> Append(st.calls, Head(todo))],
                keygen, uuid)

\* Default with the diagnostics and network-interface steps exchanged.
Default_Reordered(a, keygen, uuid) ==
    RunDefaulters(<<"SetDefaultSSHPublicKey", "SetIdentityDefaults",
                    "SetNetworkInterfacesDefaults", "SetDiagnosticsDefaults">>,
                  [amp |-> a, logged |-> <<>>, calls |-> <<>>], keygen, uuid)

\* Default returning once the SSH step has failed and been logged.
Default_AbortOnSSHError(a, keygen, uuid) ==
    LET ssh == SetDefaultSSHPublicKey(a, keygen)
    IN  IF ssh.err # Nil
        THEN [amp |-> ssh.amp, logged |-> <<ssh.err>>, calls |-> <<"SetDefaultSSHPublicKey">>]
        ELSE RunDefaulters(defaulters, [amp |-> a, logged |-> <<>>, calls |-> <<>>],
                           keygen, uuid)

\* Default(client): the candidate after the four steps, what was logged and
\* the steps run.  Default has no result: nothing reaches the caller.
Default(a, keygen, uuid) ==
    RunDefaulters(defaulters, [amp |-> a, logged |-> <<>>, calls |-> <<>>], keygen, uuid)

----------------------------------------------------------------------------
(* The requests the webhook is sent. *)

Names == {"pool-a", "pool-b"}

Images ==
    {None, Some([violations |-> <<>>]), Some([violations |-> <<"image.id">>]),
     Some([violations |-> <<"image.id", "image.marketplace">>])}

Timeouts == {None} \cup {Some(t) : t \in 0..MaxTimeout}

SSHKeys == {"", "user-key", "malformed-key"}

Identities == {"None", "SystemAssigned", "UserAssigned"}
IdentityLists == {<<>>, <<"identity-1">>}
RoleNames == {"", "role-1", "role-2"}
GeneratedRoleNames == {"generated-role-1", "generated-role-2"}

Olds ==
    {None, Some([type |-> "AzureMachine", RoleAssignmentName |-> ""])}
    \cup {Some([type |-> "AzureMachinePool", RoleAssignmentName |-> r]) : r \in RoleNames}

UserManagedBlocks ==
    {None, Some([StorageAccountURI |-> ""]), Some([StorageAccountURI |-> "https://sa.blob"])}
StorageAccountTypes == {"UserManaged", "Managed", "Disabled", ""}
DiagnosticsValues ==
    {None, Some([Boot |-> None])}
    \cup {Some([Boot |-> Some([StorageAccountType |-> t, UserManaged |-> u])]) :
            t \in StorageAccountTypes, u \in UserManagedBlocks}

Modes == {"Flexible", "Uniform", ""}

Versions ==
    {None,
     Some(<<"1", ".", "2", "5", ".", "9">>),
     Some(<<"1", ".", "2", "6", ".", "0">>),
     Some(<<"v", "1", ".", "2", "6", ".", "0">>),
     Some(<<" ", "v", "1", ".", "2", "7", ".", "3">>),
     Some(<<"1", ".", "2", "6">>),
     Some(<<"1", ".", "9", ".", "1", "2">>),
     Some(<<"2", ".", "0", ".", "0">>),
     Some(<<"0", ".", "3", "0", ".", "0">>),
     Some(<<"1", ".", "2", "6", ".", "0", "-", "r", "c", ".", "1">>),
     Some(<<"1", ".", "2", "7", ".", "0", "-", "r", "c", ".", "1">>),
     Some(<<"1", ".", "2", "7", "-", "r", "c">>),
     Some(<<"1", ".", "2", "6", ".", "x">>),
     Some(<<"l", "a", "t", "e", "s", "t">>),
     Some(<<>>)}

Clients == [ref : {"pool-a"}, failures : 0..MaxFailures, version : Versions]

IntOrStrings ==
    {[Type |-> "Int", IntVal |-> 0, StrVal |-> ""],
     [Type |-> "Int", IntVal |-> 1, StrVal |-> ""],
     [Type |-> "String", IntVal |-> 0, StrVal |-> "0%"],
     [Type |-> "String", IntVal |-> 0, StrVal |-> "25%"]}
Strategies ==
    [Type : {"RollingUpdate", "OnDelete"},
     RollingUpdate : {None} \cup
        {Some(ru) : ru \in [MaxSurge : IntOrStrings, MaxUnavailable : IntOrStrings]}]

NetworkInterfaceLists ==
    {None, Some(<<>>), Some(<<[PrivateIPConfigs |-> 0]>>),
     Some(<<[PrivateIPConfigs |-> 2], [PrivateIPConfigs |-> 0]>>)}
SubnetNames == {"", "subnet-1"}

\* A candidate nothing is set in, and the client that knows its parent.
BaseAmp ==
    [Name |-> "pool-a", Image |-> None, TerminateNotificationTimeout |-> None,
     SSHPublicKey |-> "", Identity |-> "None", UserAssignedIdentities |-> <<>>,
     RoleAssignmentName |-> "", Diagnostics |-> None, OrchestrationMode |-> "Uniform",
     Strategy |-> [Type |-> "RollingUpdate", RollingUpdate |-> None],
     NetworkInterfaces |-> None, SubnetName |-> ""]
BaseClient ==
    [ref |-> "pool-a", failures |-> 0, version |-> Some(<<"1", ".", "2", "5", ".", "9">>)]

Req(a, o, c) == [amp |-> a, old |-> o, client |-> c]

\* The identity fields and the prior object, over all their values.
IdentityRequests ==
    {Req([BaseAmp EXCEPT !.Identity = id, !.UserAssignedIdentities = l,
                         !.RoleAssignmentName = r], o, BaseClient) :
        id \in Identities, l \in IdentityLists, r \in RoleNames, o \in Olds}

\* The orchestration mode, the candidate's name and the client, over all values.
OrchestrationRequests ==
    {Req([BaseAmp EXCEPT !.OrchestrationMode = m, !.Name = n], None, c) :
        m \in Modes, n \in Names, c \in Clients}

\* One group of fields over all its values, the others as in BaseAmp.
FieldRequests ==
    {Req([BaseAmp EXCEPT !.Image = x], None, BaseClient) : x \in Images}
    \cup {Req([BaseAmp EXCEPT !.TerminateNotificationTimeout = x], None, BaseClient) :
            x \in Timeouts}
    \cup {Req([BaseAmp EXCEPT !.SSHPublicKey = x], None, BaseClient) : x \in SSHKeys}
    \cup {Req([BaseAmp EXCEPT !.Diagnostics = x], None, BaseClient) : x \in DiagnosticsValues}
    \cup {Req([BaseAmp EXCEPT !.Strategy = x], None, BaseClient) : x \in Strategies}
    \cup {Req([BaseAmp EXCEPT !.NetworkInterfaces = x, !.SubnetName = y], None, BaseClient) :
            x \in NetworkInterfaceLists, y \in SubnetNames}

\* Every combination of rules kept and broken: per validator one value it
\* accepts and one it rejects.
CombinedRequests ==
    {Req([BaseAmp EXCEPT !.Image = im, !.TerminateNotificationTimeout = t,
                         !.SSHPublicKey = k, !.Identity = id,
                         !.RoleAssignmentName = r, !.Diagnostics = d,
                         !.OrchestrationMode = m, !.Strategy = s,
                         !.NetworkInterfaces = n[1], !.SubnetName = n[2]],
         o, BaseClient) :
        im \in {None, Some([violations |-> <<"image.id">>])},
        t \in {Some(5), Some(16)},
        k \in {"", "malformed-key"},
        id \in {"None", "UserAssigned"},
        r \in {"", "role-1"},
        d \in {None, Some([Boot |-> Some([StorageAccountType |-> "UserManaged",
                                         UserManaged |-> None])])},
        m \in {"Uniform", "Flexible"},
        s \in {BaseAmp.Strategy,
               [Type |-> "RollingUpdate",
                RollingUpdate |-> Some([MaxSurge |-> [Type |-> "Int", IntVal |-> 0, StrVal |-> ""],
                                        MaxUnavailable |-> [Type |-> "Int", IntVal |-> 0, StrVal |-> ""]])]},
        n \in {<<None, "">>, <<Some(<<[PrivateIPConfigs |-> 0]>>), "subnet-1">>},
        o \in {None}}

Requests ==
    IdentityRequests \cup OrchestrationRequests \cup FieldRequests \cup CombinedRequests

----------------------------------------------------------------------------
(* The state machine: a request arrives, and the handlers run on it. *)

Init ==
    /\ \E r \in Requests : amp = r.amp /\ old = r.old /\ client = r.client
    /\ gate \in BOOLEAN
    /\ op = "none"
    /\ result = Nil
    /\ calls = <<>>
    /\ lookups = <<>>
    /\ attempts = 0
    /\ logged = <<>>
    /\ defaulted = 0

\* The mutating webhook: Default on the candidate.
OnDefault ==
    /\ defaulted < MaxDefaults
    /\ defaulted' = defaulted + 1
    /\ \E keygen \in {None} \cup {Some(k) : k \in GeneratedKeys}, uuid \in GeneratedRoleNames :
         LET d == Default(amp, keygen, uuid)
         IN  /\ amp' = d.amp
             /\ op' = "Default"
             /\ result' = Nil
             /\ calls' = d.calls
             /\ logged' = d.logged
             /\ lookups' = <<>>
             /\ attempts' = 0
             /\ UNCHANGED <<old, gate, client>>

\* The validating webhook on a create.
OnCreate ==
    \E r \in {ValidateCreate(amp, gate, client)} :
        /\ op' = "ValidateCreate"
        /\ result' = r.err
        /\ calls' = r.calls
        /\ lookups' = r.lookups
        /\ attempts' = r.attempts
        /\ logged' = <<>>
        /\ UNCHANGED <<amp, old, gate, client, defaulted>>

\* The validating webhook on an update.
OnUpdate ==
    \E r \in {ValidateUpdate(amp, old, client)} :
        /\ op' = "ValidateUpdate"
        /\ result' = r.err
        /\ calls' = r.calls
        /\ lookups' = r.lookups
        /\ attempts' = r.attempts
        /\ logged' = <<>>
        /\ UNCHANGED <<amp, old, gate, client, defaulted>>

\* The validating webhook on a delete.
OnDelete ==
    \E r \in {ValidateDelete} :
        /\ op' = "ValidateDelete"
        /\ result' = r.err
        /\ calls' = r.calls
        /\ lookups' = r.lookups
        /\ attempts' = r.attempts
        /\ logged' = <<>>
        /\ UNCHANGED <<amp, old, gate, client, defaulted>>

Next == OnDefault \/ OnCreate \/ OnUpdate \/ OnDelete

Spec == Init /\ [][Next]_vars

----------------------------------------------------------------------------
(* Properties. *)

Elems(seq) == {seq[i] : i \in 1..Len(seq)}

\* A validation handler that reached the aggregator ran last.
Aggregated == op = "ValidateUpdate" \/ (op = "ValidateCreate" /\ gate)
\* The prior object that handler passed to the aggregator.
PriorPassed == IF op = "ValidateUpdate" THEN old ELSE None
\* What each validator returns on the request, in the order of the slice.
ValidatorErrs ==
    [i \in 1..Len(validators) |-> CallValidator(validators[i], amp, PriorPassed, client).err]

\* C1: with the feature flag disabled ValidateCreate returns the Forbidden
\* error on path "spec" for every candidate, having run no validator and made
\* no parent lookup; with the flag enabled and no rule violated it returns no
\* error.
C1_CreateFeatureGate ==
    op = "ValidateCreate" =>
        /\ ~gate => /\ result.kind = "Forbidden" /\ result.path = "spec"
                    /\ calls = <<>> /\ lookups = <<>> /\ attempts = 0
        /\ (gate /\ \A i \in 1..Len(validators) : ValidatorErrs[i] = Nil) => result = Nil

\* C1 witness: a create of a candidate that breaks rules and asks for the
\* Flexible mode, refused by the feature gate.
C1_Witness ==
    /\ op = "ValidateCreate" /\ ~gate
    /\ amp.OrchestrationMode = "Flexible"
    /\ amp.TerminateNotificationTimeout = Some(16)
    /\ result = ForbiddenSpec

\* C2: Validate runs the nine validators, all of them and in order; it
\* returns no error iff none returned one, and otherwise an aggregate holding
\* exactly the errors of the failing validators, one each, in validator
\* order; a bad timeout together with the network exclusivity alone gives
\* exactly two sub-errors.
C2_AggregatesEveryError ==
    Aggregated =>
        LET failing == {i \in 1..Len(validators) : ValidatorErrs[i] # Nil}
        IN  /\ Len(validators) = 9
            /\ calls = validators
            /\ result = Nil <=> failing = {}
            /\ failing # {} =>
                /\ result.kind = "Aggregate"
                /\ Len(result.errs) = Cardinality(failing)
                /\ result.errs = NonNil(ValidatorErrs)
            /\ failing = {2, 9} =>
                result.errs = <<ValidateTerminateNotificationTimeout(amp), ValidateNetwork(amp)>>

\* C2 witness: an update whose candidate has a timeout of 16 and both the
\* interfaces and the subnet name, and breaks no other rule.
C2_Witness ==
    /\ op = "ValidateUpdate"
    /\ amp.TerminateNotificationTimeout = Some(16)
    /\ ~IsNil(amp.NetworkInterfaces) /\ amp.SubnetName = "subnet-1"
    /\ result.kind = "Aggregate" /\ Len(result.errs) = 2

\* The version strings of the model that parse as a semantic version of at
\* least 1.26.0.
AtLeastMinVersion ==
    {<<"1", ".", "2", "6", ".", "0">>,
     <<"v", "1", ".", "2", "6", ".", "0">>,
     <<" ", "v", "1", ".", "2", "7", ".", "3">>,
     <<"1", ".", "2", "6">>,
     <<"2", ".", "0", ".", "0">>,
     <<"1", ".", "2", "7", ".", "0", "-", "r", "c", ".", "1">>}

\* The error of the orchestration-mode validator in the handler's result.
OrchestrationErr == ValidatorErrs[6]

\* C3: when the mode is not Flexible no lookup is made and the validator
\* accepts; when it is, the parent is looked up once, by the candidate's name
\* and with at most 5 attempts, and the validator accepts iff the lookup
\* succeeds and the parent's version is declared, parses and is >= 1.26.0; a
\* failed lookup comes back wrapped.
C3_OrchestrationMode ==
    Aggregated =>
        /\ amp.OrchestrationMode # "Flexible" =>
            lookups = <<>> /\ attempts = 0 /\ OrchestrationErr = Nil
        /\ amp.OrchestrationMode = "Flexible" =>
            LET found == amp.Name = client.ref /\ client.failures < 5
            IN  /\ lookups = <<[name |-> amp.Name, maxAttempts |-> 5]>>
                /\ attempts = IF found THEN client.failures + 1 ELSE 5
                /\ OrchestrationErr = Nil <=>
                    /\ found
                    /\ ~IsNil(client.version)
                    /\ Deref(client.version) \in AtLeastMinVersion
                /\ OrchestrationErr # Nil => OrchestrationErr \in Elems(result.errs)
                /\ ~found =>
                    /\ OrchestrationErr.kind = "Wrapped"
                    /\ OrchestrationErr.msg = "failed to find parent MachinePool"
                /\ (found /\ client.version = Some(<<"l", "a", "t", "e", "s", "t">>)) =>
                    /\ OrchestrationErr.kind = "Wrapped"
                    /\ OrchestrationErr.msg = "failed to parse Kubernetes version"

\* C3 witness: a Flexible pool whose parent, found at the fifth attempt,
\* declares version 1.25.9, and is rejected.
C3_Witness ==
    /\ op = "ValidateUpdate"
    /\ amp.OrchestrationMode = "Flexible"
    /\ client.failures = 4 /\ attempts = 5
    /\ client.version = Some(<<"1", ".", "2", "5", ".", "9">>)
    /\ result.kind = "Aggregate" /\ Len(result.errs) = 1

\* The boot diagnostics of the candidate, when set.
HasBoot == ~IsNil(amp.Diagnostics) /\ ~IsNil(Deref(amp.Diagnostics).Boot)
Boot == Deref(Deref(amp.Diagnostics).Boot)
HasURI == ~IsNil(Boot.UserManaged) /\ Deref(Boot.UserManaged).StorageAccountURI # ""
DiagnosticsErr == ValidatorErrs[5]

\* C4: ValidateDiagnostics accepts when diagnostics or boot diagnostics is
\* unset; with type UserManaged it returns a Required error when the
\* user-managed block is nil or its URI empty and accepts otherwise; with
\* type Managed or Disabled it returns an Invalid error iff a user-managed
\* block with a non-empty URI is present.
C4_Diagnostics ==
    Aggregated =>
        /\ DiagnosticsErr = ValidateDiagnostics(amp)
        /\ DiagnosticsErr # Nil =>
            /\ DiagnosticsErr \in Elems(result.errs)
            /\ Len(DiagnosticsErr.errs) = 1
        /\ ~HasBoot => DiagnosticsErr = Nil
        /\ (HasBoot /\ Boot.StorageAccountType = "UserManaged") =>
            IF HasURI THEN DiagnosticsErr = Nil
            ELSE DiagnosticsErr # Nil /\ DiagnosticsErr.errs[1].kind = "Required"
        /\ (HasBoot /\ Boot.StorageAccountType \in {"Managed", "Disabled"}) =>
            IF HasURI
            THEN DiagnosticsErr # Nil /\ DiagnosticsErr.errs[1].kind = "Invalid"
            ELSE DiagnosticsErr = Nil

\* C4 witness: disabled boot diagnostics with a storage-account URI, rejected.
C4_Witness ==
    /\ op = "ValidateUpdate"
    /\ HasBoot /\ Boot.StorageAccountType = "Disabled" /\ HasURI
    /\ result.kind = "Aggregate" /\ result.errs[1].errs[1].kind = "Invalid"

StrategyErr == ValidatorErrs[7]
IntZero(v) == v.Type = "Int" /\ v.IntVal = 0

\* C5: ValidateStrategy rejects iff the type is RollingUpdate, the
\* rolling-update parameters are present and both max-surge and
\* max-unavailable are integers of value 0.
C5_Strategy ==
    Aggregated =>
        /\ StrategyErr = ValidateStrategy(amp)
        /\ StrategyErr # Nil => StrategyErr \in Elems(result.errs)
        /\ StrategyErr # Nil <=>
            /\ amp.Strategy.Type = "RollingUpdate"
            /\ ~IsNil(amp.Strategy.RollingUpdate)
            /\ IntZero(Deref(amp.Strategy.RollingUpdate).MaxSurge)
            /\ IntZero(Deref(amp.Strategy.RollingUpdate).MaxUnavailable)

\* C5 witness: a max-surge of "0%" with an integer max-unavailable of 0,
\* accepted.
C5_Witness ==
    /\ op = "ValidateUpdate"
    /\ amp.Strategy.Type = "RollingUpdate" /\ ~IsNil(amp.Strategy.RollingUpdate)
    /\ Deref(amp.Strategy.RollingUpdate).MaxSurge.StrVal = "0%"
    /\ IntZero(Deref(amp.Strategy.RollingUpdate).MaxUnavailable)
    /\ result = Nil

TimeoutErr == ValidatorErrs[2]

\* C6: ValidateTerminateNotificationTimeout accepts an unset timeout and a
\* timeout t iff 5 <= t <= 15; below 5 the error names the minimum, above 15
\* the maximum.
C6_TerminateNotificationTimeout ==
    Aggregated =>
        /\ TimeoutErr = ValidateTerminateNotificationTimeout(amp)
        /\ TimeoutErr # Nil => TimeoutErr \in Elems(result.errs)
        /\ IsNil(amp.TerminateNotificationTimeout) => TimeoutErr = Nil
        /\ ~IsNil(amp.TerminateNotificationTimeout) =>
            LET t == Deref(amp.TerminateNotificationTimeout)
            IN  /\ TimeoutErr = Nil <=> (5 <= t /\ t <= 15)
                /\ t < 5 => TimeoutErr.msg =
                    "minimum timeout 5 is allowed for TerminateNotificationTimeout"
                /\ t > 15 => TimeoutErr.msg =
                    "maximum timeout 15 is allowed for TerminateNotificationTimeout"

\* C6 witness: a timeout of 5, accepted.
C6_Witness ==
    /\ op = "ValidateUpdate"
    /\ amp.TerminateNotificationTimeout = Some(5)
    /\ result = Nil

NetworkErr == ValidatorErrs[9]

\* C7: ValidateNetwork returns an error iff the candidate has both a
\* non-empty interface list and a non-empty subnet name.
C7_Network ==
    Aggregated =>
        /\ NetworkErr = ValidateNetwork(amp)
        /\ NetworkErr # Nil => NetworkErr \in Elems(result.errs)
        /\ NetworkErr # Nil <=>
            /\ amp.NetworkInterfaces \notin {None, Some(<<>>)}
            /\ amp.SubnetName # ""

\* C7 witness: an empty, non-nil interface list with a subnet name, accepted.
C7_Witness ==
    /\ op = "ValidateUpdate"
    /\ amp.NetworkInterfaces = Some(<<>>) /\ amp.SubnetName = "subnet-1"
    /\ result = Nil

\* C8: Default reports nothing to its caller and runs its four steps in the
\* order SSH key, identity, diagnostics, network interfaces; a failure of the
\* SSH step is logged and the other three have still run.
C8_DefaultRunsAllSteps ==
    op = "Default" =>
        /\ result = Nil
        /\ calls = <<"SetDefaultSSHPublicKey", "SetIdentityDefaults",
                     "SetDiagnosticsDefaults", "SetNetworkInterfacesDefaults">>
        /\ amp.SSHPublicKey = "" <=> logged # <<>>
        /\ Len(logged) <= 1
        /\ HasBoot
        /\ ~IsNil(amp.NetworkInterfaces) /\ Len(Deref(amp.NetworkInterfaces)) > 0
        /\ amp.Identity = "SystemAssigned" => amp.RoleAssignmentName # ""

\* C8 witness: a Default whose key generation failed, on a system-assigned
\* identity.
C8_Witness ==
    /\ op = "Default" /\ defaulted = 1
    /\ logged # <<>> /\ amp.SSHPublicKey = ""
    /\ amp.RoleAssignmentName \in GeneratedRoleNames
    /\ Len(calls) = 4

IdentityErr == ValidatorErrs[8]

\* C10: ValidateUpdate returns what the aggregator returns on the candidate
\* and the prior object, whatever the feature flag: never the feature-gate
\* error, and with the prior's role-assignment name given to the
\* system-assigned-identity check; ValidateCreate gives that check an empty
\* previous name.
C10_UpdateDelegates ==
    /\ op = "ValidateUpdate" =>
        /\ result = Validate(amp, old, client).err
        /\ result # ForbiddenSpec
        /\ calls = validators
        /\ IdentityErr # Nil => IdentityErr \in Elems(result.errs)
        /\ (~IsNil(old) /\ Deref(old).type = "AzureMachinePool") =>
            IdentityErr = NewAggregate(InfraValidateSystemAssignedIdentity(
                amp.Identity, Deref(old).RoleAssignmentName, amp.RoleAssignmentName))
        /\ (~IsNil(old) /\ Deref(old).type # "AzureMachinePool") =>
            IdentityErr.msg = "unexpected type for old azure machine pool object"
    /\ (op = "ValidateCreate" /\ gate) =>
        /\ IdentityErr = NewAggregate(InfraValidateSystemAssignedIdentity(
                amp.Identity, "", amp.RoleAssignmentName))
        /\ IdentityErr # Nil => IdentityErr \in Elems(result.errs)

\* C10 witness: an update with the feature flag disabled that changes the
\* role-assignment name of the prior version, rejected for it.
C10_Witness ==
    /\ op = "ValidateUpdate" /\ ~gate
    /\ amp.Identity = "SystemAssigned" /\ amp.RoleAssignmentName = "role-2"
    /\ old = Some([type |-> "AzureMachinePool", RoleAssignmentName |-> "role-1"])
    /\ result.kind = "Aggregate" /\ result.errs[1].errs[1].kind = "Invalid"

====
